---- MODULE Spec2Model ----
(***************************************************************************)
(* LLM-as-judge metrics of langcheck:                                      *)
(*   langcheck.metrics.en.pairwise_text_quality.pairwise_comparison        *)
(*   langcheck.eval.en.reference_free_text_quality.sentiment               *)
(*                                                                         *)
(* A Python str is a sequence of tokens (a token stands for a run of       *)
(* characters); the literal parts of the f-string templates are tokens of  *)
(* their own, so a field string can contain the same tokens the templates  *)
(* use.  A float score s is the integer 100 * s (0.5 is 50).               *)
(***************************************************************************)
EXTENDS Integers, Sequences, FiniteSets, TLC

VARIABLES
    fn,                \* the entry point that was called
    args,              \* its arguments
    pc,                \* position of the call
    oai_evaluator,     \* pairwise_comparison: the OpenAIBasedEvaluator, once built
    prompt_fn,         \* pairwise_comparison: the template selected for the batch
    data_iter,         \* pairwise_comparison: the zip of the selected sequences
    score_list,        \* scores appended so far
    explanation_list,  \* pairwise_comparison: explanations appended so far
    calls,             \* remote judge invocations issued so far, in order
    responses,         \* what those invocations ended with, in order
    sentiment_model,   \* module global _sentiment_model / _sentiment_tokenizer
    stdout,            \* what print() has written
    error,             \* the exception that left the call, if any
    ret,               \* the value handed back to the caller, if any
    render_in,         \* prompt rendering on its own: the arguments
    render_out         \* prompt rendering on its own: the rendered prompt

vars == <<fn, args, pc, oai_evaluator, prompt_fn, data_iter, score_list,
          explanation_list, calls, responses, sentiment_model, stdout, error,
          ret, render_in, render_out>>

callVars == <<fn, args, pc, oai_evaluator, prompt_fn, data_iter, score_list,
              explanation_list, calls, responses, sentiment_model, stdout,
              error, ret>>

renderVars == <<render_in, render_out>>

(***************************************************************************)
(* Bounds                                                                  *)
(***************************************************************************)
\* longest input sequence of a batch
MaxN == 2

(***************************************************************************)
(* Python values                                                           *)
(***************************************************************************)
None == [tag |-> "None"]
Some(v) == [tag |-> "Some", val |-> v]
IsNone(o) == o.tag = "None"

\* what dict.get returns for an absent key, and the label of a JSON null
PyNone == "<None>"

Min(a, b) == IF a <= b THEN a ELSE b

\* zip(l1, .., lk): stops at the shortest of the sequences
RECURSIVE MinLen(_)
MinLen(seqs) ==
    IF Len(seqs) = 1 THEN Len(seqs[1])
    ELSE Min(Len(seqs[1]), MinLen(Tail(seqs)))

Zip(seqs) == [i \in 1..MinLen(seqs) |-> [k \in 1..Len(seqs) |-> seqs[k][i]]]

(***************************************************************************)
(* Templates of pairwise_comparison                                        *)
(***************************************************************************)
Stars == "************"
NL == "\n"

\* the text of each template up to [BEGIN DATA] (lines 27-28, 54-56, 95-98)
PlainHeader ==
    "You are comparing the quality of two responses to a user query. Here is the data:"
ReferenceHeader ==
    "You are comparing the quality of two responses to a user query. The ideal response to the query is also provided to you as a reference. Here is the data:"
SourcesHeader ==
    "You are comparing the quality of two responses to a user query. Source text that is supposedly relevant to the query is also provided to you as a reference (the source text may contain some duplication). Here is the data:"

\* one line of the list of available assessments: the label, then what it means
AssessmentLine(label, description) == label \o " - " \o description

AvailableAssessments ==
    << AssessmentLine("Response A", "Response A is a better response."),
       AssessmentLine("Response B", "Response B is a better response."),
       AssessmentLine("Tie", "The two responses are roughly equal in quality."),
       "Take a deep breath and work on this problem step-by-step." >>

\* lines 124-136: the follow-up prompt that asks for the label alone
function_call_prompt(long_assessment) ==
    << "The following is an assessment on whether Response A or Response B is the better response to the query of the user:",
       Stars, "[Assessment]:" >> \o long_assessment
        \o << Stars, "Save the resulting assessment. The available assessments are:",
               "Response A", "Response B", "Tie" >>

ResponsesSection(gen_output_a, gen_output_b) ==
    <<Stars, "[Response A]:">> \o gen_output_a
        \o <<Stars, "[Response B]:">> \o gen_output_b
        \o <<Stars, "[END DATA]">>

prompt(gen_output_a, gen_output_b, user_query) ==
    << PlainHeader,
       "[BEGIN DATA]", Stars, "[User Query]:" >> \o user_query
        \o ResponsesSection(gen_output_a, gen_output_b)
        \o << "Determine which of the responses is a better response [...] in your assessment." >>
        \o AvailableAssessments

\* a mutant of _prompt_with_reference: the template of _prompt was copied and
\* the reference never embedded
PromptWithReferenceDropsReference(gen_output_a, gen_output_b, user_query, ref_output) ==
    prompt(gen_output_a, gen_output_b, user_query)

prompt_with_reference(gen_output_a, gen_output_b, user_query, ref_output) ==
    << ReferenceHeader,
       "[BEGIN DATA]", Stars, "[Ideal Response]:" >> \o ref_output
        \o <<Stars, "[User Query]:">> \o user_query
        \o ResponsesSection(gen_output_a, gen_output_b)
        \o << "Determine which of the responses is a better response [...] using the provided Ideal Response as a reference." >>
        \o AvailableAssessments

\* a mutant of CombineSources: a second source equal to the first is dropped
CombineSourcesDeduplicated(source_1, source_2) ==
    IF ~IsNone(source_2) /\ source_2.val # source_1
    THEN source_1 \o <<NL>> \o source_2.val
    ELSE source_1

\* lines 87-92: sources, from source_1 and the optional source_2
CombineSources(source_1, source_2) ==
    IF ~IsNone(source_2)
    THEN source_1 \o <<NL>> \o source_2.val
    ELSE source_1

prompt_with_sources(gen_output_a, gen_output_b, user_query, source_1, source_2) ==
    << SourcesHeader,
       "[BEGIN DATA]", Stars, "[User Query]:" >> \o user_query
        \o <<Stars, "[Source]:">> \o CombineSources(source_1, source_2)
        \o ResponsesSection(gen_output_a, gen_output_b)
        \o << "Determine which of the responses is a better response [...] using the provided Source as a reference." >>
        \o AvailableAssessments

\* tqdm_wrapper(data_iter, desc=..., total=len(prompts)): the items of the
\* iterable, as they come; total only sizes the progress bar
tqdm_wrapper(iterable, total) == iterable

\* prompt_fn(*data_instance): the selected template applied to one tuple of
\* data_iter; a 4-tuple leaves source_2 at its default None
ApplyPromptFn(f, d) ==
    CASE f = "_prompt" -> prompt(d[1], d[2], d[3])
      [] f = "_prompt_with_reference" -> prompt_with_reference(d[1], d[2], d[3], d[4])
      [] f = "_prompt_with_sources" ->
            prompt_with_sources(d[1], d[2], d[3], d[4],
                                 IF Len(d) >= 5 THEN Some(d[5]) ELSE None)

(***************************************************************************)
(* The evaluator of pairwise_comparison                                    *)
(***************************************************************************)
PairwiseLabels == {"Response B", "Tie", "Response A"}

\* a mutant of the score mapping: the scores of the two responses swapped
PairwiseMappingSwapped ==
    [l \in PairwiseLabels |->
        CASE l = "Response B" -> 0
          [] l = "Tie" -> 50
          [] l = "Response A" -> 100]

\* lines 138-142 (1.0 is 100, 0.5 is 50, 0.0 is 0)
pairwise_comparison_assessment_to_score ==
    [l \in PairwiseLabels |->
        CASE l = "Response B" -> 100
          [] l = "Tie" -> 50
          [] l = "Response A" -> 0]

\* lines 143-151: the evaluator keeps what it is constructed with
OpenAIBasedEvaluator(model_type) ==
    [assessment_to_score_mapping |-> pairwise_comparison_assessment_to_score,
     function_name |-> "save_pairwise_comparison_assessment",
     argument_name |-> "pairwise_comparison",
     client_type |-> model_type]

\* free-text judgments of the judge
Explanations == {<<"because A">>, <<"because B">>}

\* what one judge invocation of the evaluator can end with
EvaluatorResponses ==
    [kind : {"verdict"}, label : {"Response A", "Response B", "Tie", "Mixed", "Positive"},
     explanation : Explanations]
        \cup {[kind |-> "transport"], [kind |-> "malformed"]}

\* OpenAIBasedEvaluator.get_score on the response of the judge: a score and
\* the explanation of the judge, or the error that aborts the batch
get_score(evaluator, response) ==
    CASE response.kind = "transport" -> [error |-> "TransportError"]
      [] response.kind = "malformed" -> [error |-> "MalformedJudgeResponse"]
      [] response.kind = "verdict" ->
            IF response.label \in DOMAIN evaluator.assessment_to_score_mapping
            THEN [error |-> "",
                  score |-> evaluator.assessment_to_score_mapping[response.label],
                  explanation |-> response.explanation]
            ELSE [error |-> "UnrecognizedAssessment"]

(***************************************************************************)
(* _sentiment_openai                                                       *)
(***************************************************************************)
\* lines 119-137
sentiment_prompt(gen_output) ==
    << "You are evaluating the sentiment of a submitted statement. Here is the data:",
       "[BEGIN DATA]", Stars, "[Submission]:" >> \o gen_output
        \o << Stars, "[END DATA]",
              "Determine the predominant sentiment of the submitted statement. The available assessments are:",
              "Positive - The submitted statement has a predominantly positive sentiment",
              "Negative - The submitted statement has a predominantly negative sentiment",
              "Neutral - The submitted statement has neither a positive nor negative sentiment" >>

\* lines 155-171: the schema attached to the request
SentimentFunctions ==
    [name |-> "save_sentiment_assessment",
     argument |-> "sentiment",
     enum |-> <<"Positive", "Negative", "Neutral">>]

UnrecognizedSentiment == "AssertionError: OpenAI returned an unrecognized sentiment assessment :("

\* a mutant of _sentiment_assessment_to_score: the branch for Neutral is
\* missing
SentimentToScoreWithoutNeutral(assessment) ==
    CASE assessment = "Positive" -> [error |-> "", score |-> 100]
      [] assessment = "Negative" -> [error |-> "", score |-> 0]
      [] OTHER -> [error |-> UnrecognizedSentiment]

\* a mutant of _sentiment_assessment_to_score: an unrecognized assessment
\* scores as neutral
SentimentToScoreDefaultsNeutral(assessment) ==
    CASE assessment = "Positive" -> [error |-> "", score |-> 100]
      [] assessment = "Neutral" -> [error |-> "", score |-> 50]
      [] assessment = "Negative" -> [error |-> "", score |-> 0]
      [] OTHER -> [error |-> "", score |-> 50]

\* lines 139-150
sentiment_assessment_to_score(assessment) ==
    CASE assessment = "Positive" -> [error |-> "", score |-> 100]
      [] assessment = "Neutral" -> [error |-> "", score |-> 50]
      [] assessment = "Negative" -> [error |-> "", score |-> 0]
      [] OTHER -> [error |-> UnrecognizedSentiment]

\* argument payloads a response can carry
ArgumentPayloads ==
    {"{\"sentiment\": \"Positive\"}", "{\"sentiment\": \"Neutral\"}",
     "{\"sentiment\": \"Negative\"}", "{\"sentiment\": \"Mixed\"}",
     "{\"sentiment\": null}", "{\"mood\": \"Positive\"}", "{}",
     "[\"Positive\"]", "Positive"}

\* json.loads on those payloads: a dict, a list, or JSONDecodeError
json_loads(s) ==
    CASE s = "{\"sentiment\": \"Positive\"}" -> [type |-> "dict", val |-> [sentiment |-> "Positive"]]
      [] s = "{\"sentiment\": \"Neutral\"}" -> [type |-> "dict", val |-> [sentiment |-> "Neutral"]]
      [] s = "{\"sentiment\": \"Negative\"}" -> [type |-> "dict", val |-> [sentiment |-> "Negative"]]
      [] s = "{\"sentiment\": \"Mixed\"}" -> [type |-> "dict", val |-> [sentiment |-> "Mixed"]]
      [] s = "{\"sentiment\": null}" -> [type |-> "dict", val |-> [sentiment |-> PyNone]]
      [] s = "{\"mood\": \"Positive\"}" -> [type |-> "dict", val |-> [mood |-> "Positive"]]
      [] s = "{}" -> [type |-> "dict", val |-> <<>>]
      [] s = "[\"Positive\"]" -> [type |-> "list", val |-> <<"Positive">>]
      [] OTHER -> [type |-> "JSONDecodeError"]

\* dict.get(key): the value, or None for an absent key
dict_get(d, key) == IF key \in DOMAIN d THEN d[key] ELSE PyNone

\* what openai.ChatCompletion.create can end with: an exception, or a message
\* with or without a function_call
ChatCompletionResponses ==
    {[kind |-> "transport"]}
        \cup {[kind |-> "message", function_call |-> None]}
        \cup {[kind |-> "message", function_call |-> Some([arguments |-> a])] :
                a \in ArgumentPayloads}

\* lines 186-190: from the response to the score, or to the exception raised
SentimentScoreOfResponse(response) ==
    IF response.kind = "transport" THEN [error |-> "OpenAIError"]
    ELSE IF IsNone(response.function_call) THEN [error |-> "KeyError"]
    ELSE LET function_args == json_loads(response.function_call.val.arguments) IN
         CASE function_args.type = "JSONDecodeError" -> [error |-> "JSONDecodeError"]
           [] function_args.type = "list" -> [error |-> "AttributeError"]
           [] function_args.type = "dict" ->
                sentiment_assessment_to_score(dict_get(function_args.val, "sentiment"))

\* class probabilities [negative, neutral, positive] of the local model, in percent
ProbVectors == {<<100, 0, 0>>, <<0, 100, 0>>, <<0, 0, 100>>,
                <<50, 50, 0>>, <<50, 0, 50>>, <<0, 50, 50>>}

\* line 95: probs[:, 1] / 2 + probs[:, 2]
LocalSentimentScore(probs) == probs[2] \div 2 + probs[3]

(***************************************************************************)
(* Inputs                                                                  *)
(***************************************************************************)
ModelTypes == {"openai", "azure_openai", "local"}

\* a list of n strings of one argument, each naming its argument and position
Items(role, n) == [i \in 1..n |-> <<role \o ToString(i)>>]

Lists(role) == {Items(role, n) : n \in 0..MaxN}

OptionalLists(role) == {None} \cup {Some(l) : l \in Lists(role)}

PairwiseArgs ==
    [generated_outputs_a : Lists("A"),
     generated_outputs_b : Lists("B"),
     prompts : Lists("Q"),
     sources_a : OptionalLists("SA"),
     sources_b : OptionalLists("SB"),
     reference_outputs : OptionalLists("REF"),
     model_type : ModelTypes]

SentimentArgs ==
    [generated_outputs : Lists("G"),
     prompts : OptionalLists("Q"),
     model_type : ModelTypes,
     openai_args : {None, Some([model |-> "gpt-4"])}]

NotReturned == [tag |-> "NotReturned"]
Returned(v) == [tag |-> "Returned", val |-> v]

InitCall ==
    /\ fn \in {"pairwise_comparison", "sentiment"}
    /\ args \in IF fn = "pairwise_comparison" THEN PairwiseArgs ELSE SentimentArgs
    /\ pc = "called"
    /\ oai_evaluator = None
    /\ prompt_fn = "unset"
    /\ data_iter = <<>>
    /\ score_list = <<>>
    /\ explanation_list = <<>>
    /\ calls = <<>>
    /\ responses = <<>>
    /\ sentiment_model = None
    /\ stdout = <<>>
    /\ error = ""
    /\ ret = NotReturned

Init ==
    /\ InitCall
    /\ render_in = None
    /\ render_out = None

(***************************************************************************)
(* pairwise_comparison                                                     *)
(***************************************************************************)
\* a mutant of PairwiseAssertModelType: the assertion is gone
PairwiseModelTypeUnchecked ==
    /\ fn = "pairwise_comparison"
    /\ pc = "called"
    /\ pc' = "setup"
    /\ UNCHANGED <<render_in, render_out, responses, fn, args, oai_evaluator,
                   prompt_fn, data_iter, score_list, explanation_list, calls,
                   sentiment_model, stdout, error, ret>>

\* lines 20-23
PairwiseAssertModelType ==
    /\ fn = "pairwise_comparison"
    /\ pc = "called"
    /\ IF args.model_type \in {"openai", "azure_openai"}
       THEN /\ pc' = "setup"
            /\ error' = error
       ELSE /\ pc' = "raised"
            /\ error' = "AssertionError: Unsupported model type"
    /\ UNCHANGED <<render_in, render_out, responses, fn, args, oai_evaluator,
                   prompt_fn, data_iter, score_list, explanation_list, calls,
                   sentiment_model, stdout, ret>>

\* a mutant of SelectPromptFn: the reference is looked at before the sources
SelectPromptFnReferenceFirst(a) ==
    IF ~IsNone(a.reference_outputs) THEN "_prompt_with_reference"
    ELSE IF ~IsNone(a.sources_a) \/ ~IsNone(a.sources_b) THEN "_prompt_with_sources"
    ELSE "_prompt"

\* lines 155-174: the template of the batch
SelectPromptFn(a) ==
    IF ~IsNone(a.sources_a) \/ ~IsNone(a.sources_b) THEN "_prompt_with_sources"
    ELSE IF ~IsNone(a.reference_outputs) THEN "_prompt_with_reference"
    ELSE "_prompt"

\* a mutant of SelectDataIter: reference_outputs, when supplied, is zipped in
\* whatever the template
SelectDataIterZipsReference(a) ==
    LET base == <<a.generated_outputs_a, a.generated_outputs_b, a.prompts>>
        reference == IF IsNone(a.reference_outputs) THEN <<>>
                     ELSE <<a.reference_outputs.val>>
    IN
    IF ~IsNone(a.sources_a) \/ ~IsNone(a.sources_b)
    THEN IF IsNone(a.sources_a) THEN Zip(base \o <<a.sources_b.val>> \o reference)
         ELSE IF IsNone(a.sources_b) THEN Zip(base \o <<a.sources_a.val>> \o reference)
         ELSE Zip(base \o <<a.sources_a.val, a.sources_b.val>> \o reference)
    ELSE Zip(base \o reference)

\* a mutant of SelectDataIter: with both sources supplied, sources_b is zipped
\* in before sources_a
SelectDataIterSwapsSources(a) ==
    LET base == <<a.generated_outputs_a, a.generated_outputs_b, a.prompts>> IN
    IF ~IsNone(a.sources_a) \/ ~IsNone(a.sources_b)
    THEN IF IsNone(a.sources_a) THEN Zip(base \o <<a.sources_b.val>>)
         ELSE IF IsNone(a.sources_b) THEN Zip(base \o <<a.sources_a.val>>)
         ELSE Zip(base \o <<a.sources_b.val, a.sources_a.val>>)
    ELSE IF ~IsNone(a.reference_outputs)
    THEN Zip(base \o <<a.reference_outputs.val>>)
    ELSE Zip(base)

\* lines 155-174: the sequences zipped into data_iter
SelectDataIter(a) ==
    LET base == <<a.generated_outputs_a, a.generated_outputs_b, a.prompts>> IN
    IF ~IsNone(a.sources_a) \/ ~IsNone(a.sources_b)
    THEN IF IsNone(a.sources_a) THEN Zip(base \o <<a.sources_b.val>>)
         ELSE IF IsNone(a.sources_b) THEN Zip(base \o <<a.sources_a.val>>)
         ELSE Zip(base \o <<a.sources_a.val, a.sources_b.val>>)
    ELSE IF ~IsNone(a.reference_outputs)
    THEN Zip(base \o <<a.reference_outputs.val>>)
    ELSE Zip(base)

\* lines 138-174
PairwiseSetup ==
    /\ fn = "pairwise_comparison"
    /\ pc = "setup"
    /\ oai_evaluator' = Some(OpenAIBasedEvaluator(args.model_type))
    /\ score_list' = <<>>
    /\ explanation_list' = <<>>
    /\ prompt_fn' = SelectPromptFn(args)
    /\ data_iter' = SelectDataIter(args)
    /\ pc' = "loop"
    /\ UNCHANGED <<render_in, render_out, responses, fn, args, calls,
                   sentiment_model, stdout, error, ret>>

\* lines 176-180: the next tuple of data_iter is rendered and handed to the
\* evaluator, which invokes the judge
PairwiseGetScore ==
    /\ fn = "pairwise_comparison"
    /\ pc = "loop"
    /\ Len(score_list) < Len(data_iter)
    /\ LET i == Len(score_list) + 1 IN
       calls' = Append(calls, [item |-> i,
                               prompt |-> ApplyPromptFn(prompt_fn,
                                   tqdm_wrapper(data_iter, Len(args.prompts))[i]),
                               function_call_prompt |-> "_function_call_prompt"])
    /\ pc' = "judging"
    /\ UNCHANGED <<render_in, render_out, responses, fn, args, oai_evaluator,
                   prompt_fn, data_iter, score_list, explanation_list,
                   sentiment_model, stdout, error, ret>>

\* lines 179-182: get_score returns and its results are appended, or it raises
PairwiseGetScoreReturns ==
    /\ fn = "pairwise_comparison"
    /\ pc = "judging"
    /\ \E response \in EvaluatorResponses :
         /\ responses' = Append(responses, response)
         /\ LET r == get_score(oai_evaluator.val, response) IN
              IF r.error = ""
              THEN /\ score_list' = Append(score_list, r.score)
                   /\ explanation_list' = Append(explanation_list, r.explanation)
                   /\ pc' = "loop"
                   /\ error' = error
              ELSE /\ pc' = "raised"
                   /\ error' = r.error
                   /\ UNCHANGED <<score_list, explanation_list>>
    /\ UNCHANGED <<render_in, render_out, fn, args, oai_evaluator, prompt_fn,
                   data_iter, calls, sentiment_model, stdout, ret>>

\* lines 184-185, and the return of None that ends the function
PairwisePrint ==
    /\ fn = "pairwise_comparison"
    /\ pc = "loop"
    /\ Len(score_list) = Len(data_iter)
    /\ stdout' = <<score_list, explanation_list>>
    /\ ret' = Returned(None)
    /\ pc' = "returned"
    /\ UNCHANGED <<render_in, render_out, responses, fn, args, oai_evaluator,
                   prompt_fn, data_iter, score_list, explanation_list, calls,
                   sentiment_model, error>>

(***************************************************************************)
(* sentiment                                                               *)
(***************************************************************************)
\* lines 40-46: the assertion, and the branch on model_type
SentimentAssertModelType ==
    /\ fn = "sentiment"
    /\ pc = "called"
    /\ IF args.model_type \in {"local", "openai"}
       THEN /\ pc' = IF args.model_type = "local" THEN "local" ELSE "loop"
            /\ error' = error
       ELSE /\ pc' = "raised"
            /\ error' = "AssertionError: Unsupported model type"
    /\ UNCHANGED <<render_in, render_out, responses, fn, args, oai_evaluator,
                   prompt_fn, data_iter, score_list, explanation_list, calls,
                   sentiment_model, stdout, ret>>

\* lines 49-55
EvalValue(a, scores) ==
    [tag |-> "EvalValue",
     metric_name |-> "sentiment",
     prompts |-> a.prompts,
     generated_outputs |-> a.generated_outputs,
     metric_values |-> scores,
     language |-> "en"]

\* lines 45, 58-95 and 49-55: the local model is loaded on first use, scores
\* the whole batch at once, and the EvalValue is returned
SentimentLocal ==
    /\ fn = "sentiment"
    /\ pc = "local"
    /\ sentiment_model' = Some("cardiffnlp/twitter-roberta-base-sentiment-latest")
    /\ \E probs \in [1..Len(args.generated_outputs) -> ProbVectors] :
         /\ score_list' = [i \in 1..Len(args.generated_outputs) |->
                              LocalSentimentScore(probs[i])]
         /\ ret' = Returned(EvalValue(args, score_list'))
    /\ pc' = "returned"
    /\ UNCHANGED <<render_in, render_out, responses, fn, args, oai_evaluator,
                   prompt_fn, data_iter, explanation_list, calls, stdout,
                   error>>

\* lines 153-185: the request for the next generated output is issued
SentimentOpenAICall ==
    /\ fn = "sentiment"
    /\ pc = "loop"
    /\ Len(score_list) < Len(args.generated_outputs)
    /\ LET i == Len(score_list) + 1 IN
       calls' = Append(calls,
                    [item |-> i,
                     prompt |-> sentiment_prompt(args.generated_outputs[i]),
                     functions |-> SentimentFunctions,
                     model |-> IF IsNone(args.openai_args) THEN "gpt-3.5-turbo"
                               ELSE args.openai_args.val.model])
    /\ pc' = "judging"
    /\ UNCHANGED <<render_in, render_out, responses, fn, args, oai_evaluator,
                   prompt_fn, data_iter, score_list, explanation_list,
                   sentiment_model, stdout, error, ret>>

\* a mutant of SentimentOpenAIResponse: a request that raised is issued once
\* more
SentimentOpenAIResponseRetries ==
    /\ fn = "sentiment"
    /\ pc = "judging"
    /\ \E response \in ChatCompletionResponses :
         /\ responses' = Append(responses, response)
         /\ LET r == SentimentScoreOfResponse(response) IN
              IF r.error = ""
              THEN /\ score_list' = Append(score_list, r.score)
                   /\ pc' = "loop"
                   /\ error' = error
              ELSE IF response.kind = "transport" /\ Len(calls) = Len(score_list) + 1
              THEN /\ pc' = "loop"
                   /\ UNCHANGED <<score_list, error>>
              ELSE /\ pc' = "raised"
                   /\ error' = r.error
                   /\ UNCHANGED score_list
    /\ UNCHANGED <<render_in, render_out, fn, args, oai_evaluator, prompt_fn,
                   data_iter, explanation_list, calls, sentiment_model, stdout,
                   ret>>

\* lines 173-190: the request returns or raises; the response is decoded and
\* its score appended, or the decoding or the scoring raises
SentimentOpenAIResponse ==
    /\ fn = "sentiment"
    /\ pc = "judging"
    /\ \E response \in ChatCompletionResponses :
         /\ responses' = Append(responses, response)
         /\ LET r == SentimentScoreOfResponse(response) IN
              IF r.error = ""
              THEN /\ score_list' = Append(score_list, r.score)
                   /\ pc' = "loop"
                   /\ error' = error
              ELSE /\ pc' = "raised"
                   /\ error' = r.error
                   /\ UNCHANGED score_list
    /\ UNCHANGED <<render_in, render_out, fn, args, oai_evaluator, prompt_fn,
                   data_iter, explanation_list, calls, sentiment_model,
                   stdout, ret>>

\* lines 191 and 49-55
SentimentReturn ==
    /\ fn = "sentiment"
    /\ pc = "loop"
    /\ Len(score_list) = Len(args.generated_outputs)
    /\ ret' = Returned(EvalValue(args, score_list))
    /\ pc' = "returned"
    /\ UNCHANGED <<render_in, render_out, responses, fn, args, oai_evaluator,
                   prompt_fn, data_iter, score_list, explanation_list, calls,
                   sentiment_model, stdout, error>>

Next ==
    \/ PairwiseAssertModelType
    \/ PairwiseSetup
    \/ PairwiseGetScore
    \/ PairwiseGetScoreReturns
    \/ PairwisePrint
    \/ SentimentAssertModelType
    \/ SentimentLocal
    \/ SentimentOpenAICall
    \/ SentimentOpenAIResponse
    \/ SentimentReturn

Spec == Init /\ [][Next]_vars

(***************************************************************************)
(* Prompt rendering on its own: the templates of pairwise_comparison       *)
(* applied to field strings that may hold the tokens of the templates      *)
(***************************************************************************)
FieldStrings ==
    {<<>>, <<"x">>, <<"y", NL, "z">>, <<"[Source]:", "y">>,
     <<"[Ideal Response]:", "y">>, <<Stars, "[User Query]:", "x">>}

OutputStrings == {<<"x">>, <<Stars, "[Source]:", "y">>}

RenderInputs ==
    [prompt_fn : {"_prompt"}, gen_output_a : OutputStrings,
     gen_output_b : OutputStrings, user_query : FieldStrings]
    \cup
    [prompt_fn : {"_prompt_with_reference"}, gen_output_a : OutputStrings,
     gen_output_b : OutputStrings, user_query : FieldStrings,
     ref_output : FieldStrings]
    \cup
    [prompt_fn : {"_prompt_with_sources"}, gen_output_a : OutputStrings,
     gen_output_b : OutputStrings, user_query : FieldStrings,
     source_1 : FieldStrings,
     source_2 : {None} \cup {Some(f) : f \in FieldStrings}]

\* the template a call names, applied to its arguments
RenderPrompt(in) ==
    CASE in.prompt_fn = "_prompt" ->
            prompt(in.gen_output_a, in.gen_output_b, in.user_query)
      [] in.prompt_fn = "_prompt_with_reference" ->
            prompt_with_reference(in.gen_output_a, in.gen_output_b,
                                  in.user_query, in.ref_output)
      [] in.prompt_fn = "_prompt_with_sources" ->
            prompt_with_sources(in.gen_output_a, in.gen_output_b,
                                in.user_query, in.source_1, in.source_2)

InitRender ==
    /\ fn = "none"
    /\ args = None
    /\ pc = "idle"
    /\ oai_evaluator = None
    /\ prompt_fn = "unset"
    /\ data_iter = <<>>
    /\ score_list = <<>>
    /\ explanation_list = <<>>
    /\ calls = <<>>
    /\ responses = <<>>
    /\ sentiment_model = None
    /\ stdout = <<>>
    /\ error = ""
    /\ ret = NotReturned
    /\ render_in \in RenderInputs
    /\ render_out = None

Render ==
    /\ IsNone(render_out)
    /\ render_out' = Some(RenderPrompt(render_in))
    /\ UNCHANGED render_in
    /\ UNCHANGED callVars

NextRender == Render

RenderSpec == InitRender /\ [][NextRender]_vars

(***************************************************************************)
(* Properties                                                              *)
(***************************************************************************)
Contains(seq, tok) == \E i \in 1..Len(seq) : seq[i] = tok

\* the template a rendered prompt opens with
TemplateOf(p) ==
    CASE p[1] = PlainHeader -> "_prompt"
      [] p[1] = ReferenceHeader -> "_prompt_with_reference"
      [] p[1] = SourcesHeader -> "_prompt_with_sources"
      [] OTHER -> "unknown"

\* the tokens of a prompt between the first marker tok and the next line of stars
SectionAfter(p, tok) ==
    LET start == CHOOSE i \in 1..Len(p) :
                    p[i] = tok /\ \A k \in 1..(i - 1) : p[k] # tok
        stop == CHOOSE i \in (start + 1)..Len(p) :
                    p[i] = Stars /\ \A k \in (start + 1)..(i - 1) : p[k] # Stars
    IN SubSeq(p, start + 1, stop - 1)

IsPairwise == fn = "pairwise_comparison"
IsSentimentOpenAI == fn = "sentiment" /\ args.model_type = "openai"

\* the label a judge response carries, if it carries one
HasLabel(r) ==
    IF IsPairwise THEN r.kind = "verdict"
    ELSE /\ r.kind = "message"
         /\ ~IsNone(r.function_call)
         /\ json_loads(r.function_call.val.arguments).type = "dict"
         /\ "sentiment" \in DOMAIN json_loads(r.function_call.val.arguments).val
         /\ json_loads(r.function_call.val.arguments).val.sentiment # PyNone

LabelOf(r) ==
    IF IsPairwise THEN r.label
    ELSE json_loads(r.function_call.val.arguments).val.sentiment

\* the labels of the schema of the call, and the score the schema gives each
SchemaLabels ==
    IF IsPairwise THEN {"Response A", "Response B", "Tie"}
    ELSE {"Positive", "Neutral", "Negative"}

SchemaScore(label) ==
    CASE label \in {"Response B", "Positive"} -> 100
      [] label \in {"Tie", "Neutral"} -> 50
      [] label \in {"Response A", "Negative"} -> 0

\* every supplied sequence of the call has the same length
SuppliedLengths ==
    IF IsPairwise
    THEN {Len(args.generated_outputs_a), Len(args.generated_outputs_b),
          Len(args.prompts)}
         \cup {Len(o.val) : o \in {x \in {args.sources_a, args.sources_b,
                                          args.reference_outputs} : ~IsNone(x)}}
    ELSE {Len(args.generated_outputs)}
         \cup {Len(o.val) : o \in {x \in {args.prompts} : ~IsNone(x)}}

Aligned == Cardinality(SuppliedLengths) = 1

BatchSize == CHOOSE n \in SuppliedLengths : TRUE

\* C1: once pairwise_comparison has built its evaluator, the score mapping the
\* evaluator holds has exactly the labels Response A, Tie and Response B, with
\* the scores 0.0, 0.5 and 1.0; no other label has a score.
C1_PairwiseScoreMapping ==
    ~IsNone(oai_evaluator) =>
        LET m == oai_evaluator.val.assessment_to_score_mapping IN
        /\ DOMAIN m = {"Response A", "Tie", "Response B"}
        /\ m["Response A"] = 0
        /\ m["Tie"] = 50
        /\ m["Response B"] = 100

C1_Witness == IsPairwise /\ pc = "loop" /\ ~IsNone(oai_evaluator)

\* C2: a judged batch of N aligned items that completes hands its caller N
\* results; result i has the score of the label returned for item i and, for
\* pairwise_comparison, the explanation of that call.
C2_CallerReceivesNResults ==
    (pc = "returned" /\ (IsPairwise \/ IsSentimentOpenAI) /\ Aligned) =>
        /\ ret.tag = "Returned"
        /\ ret.val.tag # "None"
        /\ Len(ret.val.metric_values) = BatchSize
        /\ \A i \in 1..BatchSize :
              ret.val.metric_values[i] = SchemaScore(LabelOf(responses[i]))
        /\ IsPairwise =>
              /\ Len(ret.val.explanations) = BatchSize
              /\ \A i \in 1..BatchSize :
                    ret.val.explanations[i] = responses[i].explanation

\* C3: a judge response for item k whose label is not of the schema ends the
\* call with the unrecognized-assessment error: nothing is returned or
\* printed, and no score stands for item k.
C3_UnrecognizedLabelAbortsBatch ==
    \A k \in 1..Len(responses) :
        (HasLabel(responses[k]) /\ LabelOf(responses[k]) \notin SchemaLabels) =>
            /\ pc = "raised"
            /\ error = IF IsPairwise THEN "UnrecognizedAssessment"
                       ELSE UnrecognizedSentiment
            /\ ret = NotReturned
            /\ stdout = <<>>
            /\ k = Len(responses)
            /\ Len(score_list) = k - 1

C3_Witness ==
    /\ IsSentimentOpenAI
    /\ Len(responses) = 2
    /\ HasLabel(responses[2])
    /\ LabelOf(responses[2]) = "Mixed"
    /\ Len(score_list) = 1

\* C4: every prompt of a batch is rendered with the with-sources template if
\* sources_a or sources_b is supplied (the reference is then not embedded),
\* else with the with-reference template if reference_outputs is supplied,
\* else with the plain template.
C4_VariantPrecedence ==
    IsPairwise =>
        \A j \in 1..Len(calls) :
            LET p == calls[j].prompt IN
            IF ~IsNone(args.sources_a) \/ ~IsNone(args.sources_b)
            THEN /\ TemplateOf(p) = "_prompt_with_sources"
                 /\ Contains(p, "[Source]:")
                 /\ ~Contains(p, "[Ideal Response]:")
                 /\ ~IsNone(args.reference_outputs) =>
                        \A i \in 1..Len(args.reference_outputs.val) :
                            ~Contains(p, args.reference_outputs.val[i][1])
            ELSE IF ~IsNone(args.reference_outputs)
            THEN /\ TemplateOf(p) = "_prompt_with_reference"
                 /\ SectionAfter(p, "[Ideal Response]:") = args.reference_outputs.val[j]
                 /\ ~Contains(p, "[Source]:")
            ELSE /\ TemplateOf(p) = "_prompt"
                 /\ ~Contains(p, "[Source]:")
                 /\ ~Contains(p, "[Ideal Response]:")

C4_Witness ==
    /\ IsPairwise
    /\ Len(calls) = 2
    /\ ~IsNone(args.sources_b)
    /\ ~IsNone(args.reference_outputs)
    /\ Len(args.reference_outputs.val) = 2

\* C5: the with-sources prompt embeds, right after its [Source]: marker and
\* right before the stars that open the Response A section, source_1, one
\* line break and source_2 when source_2 is supplied (also when the two are
\* equal), and source_1 alone, with nothing added, when it is not.
C5_SourcesEmbedded ==
    (~IsNone(render_out) /\ render_in.prompt_fn = "_prompt_with_sources") =>
        LET p == render_out.val
            marker == 4 + Len(render_in.user_query) + 2
            embedded == IF IsNone(render_in.source_2) THEN render_in.source_1
                        ELSE render_in.source_1 \o <<NL>> \o render_in.source_2.val
        IN /\ p[marker] = "[Source]:"
           /\ SubSeq(p, marker + 1, marker + Len(embedded)) = embedded
           /\ p[marker + Len(embedded) + 1] = Stars
           /\ p[marker + Len(embedded) + 2] = "[Response A]:"
           /\ Len(p) = 17 + Len(render_in.user_query) + Len(embedded)
                          + Len(render_in.gen_output_a) + Len(render_in.gen_output_b)

C5_Witness ==
    /\ ~IsNone(render_out)
    /\ render_in.prompt_fn = "_prompt_with_sources"
    /\ render_in.source_1 = <<"y", NL, "z">>
    /\ render_in.source_2 = Some(render_in.source_1)

\* C6: with a model_type the entry point does not support, the call ends in
\* the assertion error at once: no judge invocation is issued, no evaluator
\* and no local model is built, and no score is produced, returned or printed.
C6_UnsupportedModelTypeFailsFirst ==
    ( \/ IsPairwise /\ args.model_type \notin {"openai", "azure_openai"}
      \/ fn = "sentiment" /\ args.model_type \notin {"local", "openai"} ) =>
        /\ pc \in {"called", "raised"}
        /\ pc = "raised" => error = "AssertionError: Unsupported model type"
        /\ calls = <<>>
        /\ responses = <<>>
        /\ IsNone(oai_evaluator)
        /\ IsNone(sentiment_model)
        /\ score_list = <<>>
        /\ stdout = <<>>
        /\ ret = NotReturned

C6_Witness ==
    /\ IsPairwise
    /\ args.model_type = "local"
    /\ Len(args.generated_outputs_a) = 2
    /\ pc = "raised"

\* the templates that render some arguments to a given text
EncodedBy(text) ==
    {in.prompt_fn : in \in {x \in RenderInputs : RenderPrompt(x) = text}}

\* C7: a rendered prompt is the rendering of no arguments of another
\* template, whatever the field strings hold: the template read back from the
\* text is the template that rendered it.
C7_VariantRoundTrip ==
    ~IsNone(render_out) => EncodedBy(render_out.val) = {render_in.prompt_fn}

C7_Witness ==
    /\ ~IsNone(render_out)
    /\ render_in.prompt_fn = "_prompt"
    /\ render_in.user_query = <<"[Ideal Response]:", "y">>
    /\ render_in.gen_output_b = <<Stars, "[Source]:", "y">>

\* C8: judge invocations are issued one at a time and in input order:
\* invocation j is for item j and embeds its generated output, an invocation
\* is issued only when every earlier one has returned and its score has been
\* appended, and after an invocation has failed none follows.
C8_SequentialOneCallPerItem ==
    (IsPairwise \/ IsSentimentOpenAI) =>
        /\ \A j \in 1..Len(calls) :
              /\ calls[j].item = j
              /\ Contains(calls[j].prompt,
                          IF IsPairwise THEN args.generated_outputs_a[j][1]
                          ELSE args.generated_outputs[j][1])
        /\ Len(responses) = IF pc = "judging" THEN Len(calls) - 1 ELSE Len(calls)
        /\ Len(score_list) = IF pc = "raised" /\ calls # <<>>
                             THEN Len(responses) - 1 ELSE Len(responses)
        /\ Len(calls) <= IF IsPairwise THEN Len(data_iter)
                           ELSE Len(args.generated_outputs)

C8_Witness ==
    /\ IsPairwise
    /\ Len(calls) = 2
    /\ pc = "raised"
    /\ Len(score_list) = 1
    /\ Len(data_iter) = 2

\* a response without the structured argument, with an argument that does not
\* decode, or with a decoded argument that lacks the label field
Malformed(r) ==
    IF IsPairwise THEN r.kind = "malformed"
    ELSE /\ r.kind = "message"
         /\ \/ IsNone(r.function_call)
            \/ json_loads(r.function_call.val.arguments).type # "dict"
            \/ "sentiment" \notin DOMAIN json_loads(r.function_call.val.arguments).val

\* C9: a malformed judge response ends the call with an error that is not
\* the unrecognized-assessment error, and no score stands for its item.
C9_MalformedIsDistinct ==
    \A k \in 1..Len(responses) :
        Malformed(responses[k]) =>
            /\ pc = "raised"
            /\ error \notin {"", "UnrecognizedAssessment", UnrecognizedSentiment}
            /\ Len(score_list) = k - 1

\* C10: with sources supplied, the [Source]: section of the prompt of item j
\* is sources_b[j] alone when only sources_b is supplied, sources_a[j] alone
\* when only sources_a is supplied, and sources_a[j], a line break and
\* sources_b[j] when both are.
C10_SourcesOfItem ==
    (IsPairwise /\ (~IsNone(args.sources_a) \/ ~IsNone(args.sources_b))) =>
        \A j \in 1..Len(calls) :
            /\ IsNone(args.sources_a) \/ j <= Len(args.sources_a.val)
            /\ IsNone(args.sources_b) \/ j <= Len(args.sources_b.val)
            /\ SectionAfter(calls[j].prompt, "[Source]:") =
                  IF IsNone(args.sources_a) THEN args.sources_b.val[j]
                  ELSE IF IsNone(args.sources_b) THEN args.sources_a.val[j]
                  ELSE args.sources_a.val[j] \o <<NL>> \o args.sources_b.val[j]

C10_Witness ==
    /\ IsPairwise
    /\ Len(calls) = 2
    /\ IsNone(args.sources_a)
    /\ ~IsNone(args.sources_b)

\* the labels a prompt offers the judge: those it lists with their meaning,
\* or, in the follow-up prompt, on a line of their own
OfferedLabels == {"Response A", "Response B", "Tie", "Positive", "Negative",
                  "Neutral", "Mixed"}

\* the tokens that name a label: the label alone, or a line of the list of
\* available assessments that opens with it
LabelTokens ==
    {<<l, l>> : l \in OfferedLabels}
        \cup {<<l, AssessmentLine(l, d)>> :
                l \in OfferedLabels,
                d \in {"Response A is a better response.",
                       "Response B is a better response.",
                       "The two responses are roughly equal in quality."}}

LabelsNamedIn(p) ==
    {t[1] : t \in {x \in LabelTokens : Contains(p, x[2])}}

\* C11: every label of the enum a sentiment request carries has a score, 1.0
\* for Positive, 0.0 for Negative and 0.5 for Neutral; every label the prompt
\* of a pairwise_comparison invocation names, and every label its follow-up
\* prompt names, has a score in the mapping of the evaluator; and the scores
\* of a judged batch that has completed are each 0, 0.5 or 1.  (Each
\* invocation is looked at while it is in flight.)
C11_MappingTotalAndBounded ==
    /\ (IsSentimentOpenAI /\ pc = "judging") =>
          LET enum == calls[Len(calls)].functions.enum IN
          /\ {enum[i] : i \in 1..Len(enum)} = {"Positive", "Negative", "Neutral"}
          /\ \A i \in 1..Len(enum) :
                /\ sentiment_assessment_to_score(enum[i]).error = ""
                /\ sentiment_assessment_to_score(enum[i]).score =
                      CASE enum[i] = "Positive" -> 100
                        [] enum[i] = "Negative" -> 0
                        [] enum[i] = "Neutral" -> 50
    /\ (IsPairwise /\ pc = "judging") =>
          LET m == oai_evaluator.val.assessment_to_score_mapping IN
          /\ LabelsNamedIn(calls[Len(calls)].prompt) = {"Response A", "Response B", "Tie"}
          /\ LabelsNamedIn(calls[Len(calls)].prompt) \subseteq DOMAIN m
          /\ \A e \in Explanations :
                /\ LabelsNamedIn(function_call_prompt(e)) = {"Response A", "Response B", "Tie"}
                /\ LabelsNamedIn(function_call_prompt(e)) \subseteq DOMAIN m
          /\ \A l \in DOMAIN m : m[l] \in {0, 50, 100}
    /\ ((IsPairwise \/ IsSentimentOpenAI) /\ pc = "returned") =>
          /\ Len(score_list) = Len(calls)
          /\ \A i \in 1..Len(score_list) : score_list[i] \in {0, 50, 100}

C11_Witness ==
    /\ IsSentimentOpenAI
    /\ pc = "returned"
    /\ score_list = <<50, 100>>

\* the lengths of the sequences the selected template draws on
SelectedLengths ==
    {Len(args.generated_outputs_a), Len(args.generated_outputs_b),
     Len(args.prompts)}
        \cup (IF ~IsNone(args.sources_a) \/ ~IsNone(args.sources_b)
              THEN {Len(o.val) : o \in {x \in {args.sources_a, args.sources_b} :
                                            ~IsNone(x)}}
              ELSE IF ~IsNone(args.reference_outputs)
              THEN {Len(args.reference_outputs.val)}
              ELSE {})

ShortestSelected == CHOOSE n \in SelectedLengths : \A k \in SelectedLengths : n <= k

\* C12: pairwise_comparison never fails on account of the lengths of its
\* sequences.  With m the shortest of generated_outputs_a,
\* generated_outputs_b, prompts and the context sequences of the selected
\* template, invocation j is for the j-th item of each, a further invocation
\* is issued as long as fewer than m have returned, after m the call prints
\* and returns, and a call that has returned has issued exactly m invocations
\* without an error.
C12_ShortestSequenceBoundsBatch ==
    (IsPairwise /\ pc \in {"loop", "judging", "raised", "returned"}) =>
        /\ Len(calls) <= ShortestSelected
        /\ \A j \in 1..Len(calls) :
              /\ calls[j].item = j
              /\ SectionAfter(calls[j].prompt, "[Response A]:") = args.generated_outputs_a[j]
              /\ SectionAfter(calls[j].prompt, "[Response B]:") = args.generated_outputs_b[j]
              /\ SectionAfter(calls[j].prompt, "[User Query]:") = args.prompts[j]
        /\ (pc = "raised" /\ calls = <<>>) =>
              args.model_type \notin {"openai", "azure_openai"}
        /\ (pc = "loop" /\ Len(score_list) < ShortestSelected) =>
              ENABLED PairwiseGetScore
        /\ (pc = "loop" /\ Len(score_list) = ShortestSelected) =>
              ENABLED PairwisePrint
        /\ pc = "returned" =>
              /\ Len(calls) = ShortestSelected
              /\ Len(score_list) = ShortestSelected
              /\ error = ""

C12_Witness ==
    /\ IsPairwise
    /\ pc = "returned"
    /\ Len(args.generated_outputs_a) = 2
    /\ Len(args.prompts) = 1
    /\ ~IsNone(args.sources_b)
    /\ Len(args.sources_b.val) = 2
    /\ ~IsNone(args.reference_outputs)
    /\ Len(args.reference_outputs.val) = 0
    /\ Len(calls) = 1

====
